---- MODULE Spec2Model ----
(***************************************************************************)
(* Model of fusenet/model_selection/stability.py: class Stability          *)
(* (stability selection of the regularization strength, StARS).            *)
(*                                                                         *)
(* Numbers.  Dependency scores and thresholds are integers counting units  *)
(* of 1e-9, so 1e-3 is 1000000 and numpy's default absolute tolerance 1e-8 *)
(* is 10.  Instability scores are exact fractions num/den, or NaN (the     *)
(* IEEE result of 0.0/0.0).  Inside the bounds used here every product,    *)
(* sum and quotient the code forms that is compared for equality with beta *)
(* is exact in binary floating point (halves), so the exact fractions      *)
(* order the same way as the doubles.                                      *)
(*                                                                         *)
(* A matrix is a record [rows, cols, val] with val a function on           *)
(* (1..rows) \X (1..cols) (numpy indices shifted by one).                  *)
(***************************************************************************)
EXTENDS Integers, Sequences, FiniteSets, TLC

\* ------------------------------------------------------------------ bounds
\* largest number of features (matrix side) in a call of optimal_reg
MaxFeat == 2
\* largest matrix side in a stand-alone call of _dep2adj
MaxDepFeat == 2
\* largest matrix side in a stand-alone call of _adj_var
MaxVarFeat == 3
\* largest denominator of the frequencies handed to _adj_var
MaxDen == 3
\* longest regularization path / longest per-subsample list
MaxPath == 3
\* regularization values are 1..MaxRho
MaxRho == 2
\* largest number of subsamples
MaxSamples == 2

\* ------------------------------------------------------- program constants
\* thres=1e-3 (default of __init__), in units of 1e-9
DefaultThres == 1000000
\* numpy.allclose defaults used by line 50: atol = 1e-8, rtol = 1e-5
Atol == 10
RtolDen == 100000
\* beta=0.05 (default of __init__) as the fraction 1/20
DefaultBetaNum == 1
DefaultBetaDen == 20

\* ------------------------------------------------------------------- state
VARIABLES
    beta,        \* self.beta, a fraction [num, den]
    thres,       \* self.thres
    verbose,     \* self.verbose
    pc,          \* position of the running call
    dep_matrix,  \* argument of a stand-alone _dep2adj call
    adj,         \* value returned by that call
    mean_adj,    \* argument of a stand-alone _adj_var call
    var,         \* value returned by that call
    rhos,        \* argument rhos of optimal_reg (never rebound in the model)
    sample2deps, \* argument sample2deps of optimal_reg
    rho2var,     \* local rho2var (a function on the set of distinct rhos)
    sorted_rhos, \* local rhos after line 91
    rho_opt,     \* local rho_opt; None is modelled as 0 (rhos are >= 1)
    warned,      \* number of warnings.warn calls of this call
    printed,     \* number of print statements executed by this call
    err,         \* exception that ended the call, "" if none
    result       \* value returned by optimal_reg, None = 0

vars == <<beta, thres, verbose, pc, dep_matrix, adj, mean_adj, var, rhos,
          sample2deps, rho2var, sorted_rhos, rho_opt, warned, printed, err,
          result>>

objvars == <<beta, thres, verbose>>
depvars == <<dep_matrix, adj>>
varvars == <<mean_adj, var>>
regvars == <<rhos, sample2deps, rho2var, sorted_rhos, rho_opt, warned,
             printed, err, result>>

None == 0
EmptyMatrix == [rows |-> 0, cols |-> 0, val |-> <<>>, den |-> 1]
NaN == [nan |-> TRUE, num |-> 0, den |-> 1]

\* ---------------------------------------------------------------- helpers
Abs(x) == IF x < 0 THEN -x ELSE x

Matrix(p, f) == [rows |-> p, cols |-> p, val |-> f]

\* dep_matrix.T
Transpose(m) ==
    [rows |-> m.cols, cols |-> m.rows,
     val |-> [ij \in (1..m.cols) \X (1..m.rows) |-> m.val[<<ij[2], ij[1]>>]]]

\* np.allclose(a, b): |a - b| <= atol + rtol * |b| element-wise, rtol being
\* 1/RtolDen.  For integers x * RtolDen <= y is x <= y \div RtolDen, which
\* keeps the products inside 32 bits.
AllClose(a, b) ==
    \A ij \in DOMAIN a.val :
        Abs(a.val[ij] - b.val[ij]) - Atol <= Abs(b.val[ij]) \div RtolDen

\* the comparison of lines 52 and 54 turned around: np.abs(m) < t
AbsLess(m, t) ==
    [rows |-> m.rows, cols |-> m.cols,
     val |-> [ij \in DOMAIN m.val |-> IF Abs(m.val[ij]) < t THEN 1 ELSE 0]]

\* np.abs(m) > t, as 0/1
AbsGreater(m, t) ==
    [rows |-> m.rows, cols |-> m.cols,
     val |-> [ij \in DOMAIN m.val |-> IF Abs(m.val[ij]) > t THEN 1 ELSE 0]]

\* np.maximum(a, b)
np_maximum(a, b) ==
    [rows |-> a.rows, cols |-> a.cols,
     val |-> [ij \in DOMAIN a.val |->
                 IF a.val[ij] >= b.val[ij] THEN a.val[ij] ELSE b.val[ij]]]

\* the assertion of line 49
IsQuadratic(m) == m.rows = m.cols

\* Stability._dep2adj with self.thres = t (the assertion holds of m)
dep2adj(m, t) ==
    IF AllClose(m, Transpose(m))
    THEN AbsGreater(m, t)
    ELSE np_maximum(AbsGreater(m, t), AbsGreater(Transpose(m), t))


\* ------------------------------------------------------- _adj_var (58-63)
RECURSIVE SumOver(_, _)
\* np.sum of the values f[x] for x in S
SumOver(S, f) ==
    IF S = {} THEN 0
    ELSE LET x == CHOOSE y \in S : TRUE IN f[x] + SumOver(S \ {x}, f)

\* np.triu_indices(p) without k=1: the diagonal is included
triu_indices_k0(p) == {ij \in (1..p) \X (1..p) : ij[1] <= ij[2]}

\* np.triu_indices(p, k=1): the index pairs strictly above the diagonal
triu_indices(p) == {ij \in (1..p) \X (1..p) : ij[1] < ij[2]}

\* misc.comb(p, 2); 0 when p < 2
comb2(p) == (p * (p - 1)) \div 2

\* Stability._adj_var.  m holds the numerators of the frequencies, m.den
\* their common denominator.  Each term 2 * f * (1 - f) is
\* 2 * k * (den - k) / den^2; the sum is divided by nck.  For p < 2 both
\* the sum and nck are 0.0 and numpy's 0.0 / 0.0 is nan (a RuntimeWarning of
\* numpy, not an exception).
adj_var(m) ==
    LET p   == m.rows
        idx0 == triu_indices(p)
        nck == comb2(p)
        s   == SumOver(idx0, [ij \in idx0 |-> 2 * m.val[ij] * (m.den - m.val[ij])])
    IN  IF nck = 0 THEN NaN
        ELSE [nan |-> FALSE, num |-> s, den |-> m.den * m.den * nck]

\* ----------------------------------------- stand-alone call of _dep2adj
\* dependency scores tried: 0, 1e-3 (= the default threshold), 1.000005e-3
\* (within allclose's tolerance of 1e-3) and -2e-3
DepVals == {0, 1000000, 1000005, -2000000}
\* thresholds tried
ThresVals == {0, DefaultThres, 1500000}
DefaultBeta == [num |-> DefaultBetaNum, den |-> DefaultBetaDen]

IdleLocals ==
    /\ rhos = <<>> /\ sample2deps = <<>>
    /\ rho2var = <<>> /\ sorted_rhos = <<>> /\ rho_opt = None
    /\ warned = 0 /\ printed = 0 /\ err = "" /\ result = None

InitDep ==
    /\ beta = DefaultBeta /\ thres \in ThresVals /\ verbose = TRUE
    /\ pc = "dep2adj"
    /\ \E r \in 1..MaxDepFeat, c \in 1..MaxDepFeat :
          \E f \in [(1..r) \X (1..c) -> DepVals] :
             dep_matrix = [rows |-> r, cols |-> c, val |-> f]
    /\ adj = EmptyMatrix
    /\ mean_adj = EmptyMatrix /\ var = NaN
    /\ IdleLocals

\* self._dep2adj(dep_matrix): lines 49-56
Dep2Adj ==
    /\ pc = "dep2adj"
    /\ IF IsQuadratic(dep_matrix)
       THEN /\ adj' = dep2adj(dep_matrix, thres)
            /\ pc' = "converted"
            /\ err' = err
       ELSE /\ adj' = adj
            /\ pc' = "raised"
            /\ err' = "AssertionError"
    /\ UNCHANGED <<objvars, dep_matrix, varvars, rhos, sample2deps, rho2var,
                   sorted_rhos, rho_opt, warned, printed, result>>

NextDep == Dep2Adj
SpecDep == InitDep /\ [][NextDep]_vars

\* ----------------------------------------- stand-alone call of _adj_var
\* A mean adjacency matrix with numerators up(i, j) above the diagonal, dg
\* on the diagonal and, below the diagonal, the mirror image of the upper
\* triangle (mirror) or zeros.
MeanMatrix(p, d, up, dg, mirror) ==
    [rows |-> p, cols |-> p, den |-> d,
     val |-> [ij \in (1..p) \X (1..p) |->
                 IF ij[1] < ij[2] THEN up[ij]
                 ELSE IF ij[1] = ij[2] THEN dg
                 ELSE IF mirror THEN up[<<ij[2], ij[1]>>] ELSE 0]]

InitVar ==
    /\ beta = DefaultBeta /\ thres = DefaultThres /\ verbose = TRUE
    /\ pc = "adj_var"
    /\ dep_matrix = EmptyMatrix /\ adj = EmptyMatrix
    /\ \E p \in 0..MaxVarFeat, d \in 1..MaxDen :
          \E up \in [triu_indices(p) -> 0..d], dg \in 0..d, mirror \in BOOLEAN :
             mean_adj = MeanMatrix(p, d, up, dg, mirror)
    /\ var = NaN
    /\ IdleLocals

\* self._adj_var(mean_adj): lines 59-63
AdjVar ==
    /\ pc = "adj_var"
    /\ var' = adj_var(mean_adj)
    /\ pc' = "scored"
    /\ UNCHANGED <<objvars, depvars, mean_adj, regvars>>

NextVar == AdjVar
SpecVar == InitVar /\ [][NextVar]_vars

\* ------------------------------------------------- optimal_reg (65-104)
\* Dependency matrices handed to optimal_reg, for p features: every matrix
\* has 2e-3 on its diagonal; off the diagonal NoEdges is 0 (symmetric, line
\* 52) and LowerEdges is -2e-3 below and 0 above the diagonal (not symmetric,
\* line 54).
OffDiagonal(p, upper, lower) ==
    Matrix(p, [ij \in (1..p) \X (1..p) |->
                  IF ij[1] = ij[2] THEN 2000000
                  ELSE IF ij[1] < ij[2] THEN upper ELSE lower])
NoEdges(p) == OffDiagonal(p, 0, 0)
LowerEdges(p) == OffDiagonal(p, 0, -2000000)

\* The state holds a dependency matrix of optimal_reg by its name, a record
\* [kind, p]; DepMatrix gives the ndarray it names.  For p < 2 the two kinds
\* are the same matrix and only one name is used.
DepCatalogue(p) ==
    {[kind |-> k, p |-> p] :
        k \in IF p < 2 THEN {"NoEdges"} ELSE {"NoEdges", "LowerEdges"}}
DepMatrix(d) == IF d.kind = "LowerEdges" THEN LowerEdges(d.p) ELSE NoEdges(d.p)

\* the objects tried: Stability() and Stability(beta=0.5, verbose=False)
Objects ==
    {[beta |-> DefaultBeta, thres |-> DefaultThres, verbose |-> TRUE],
     [beta |-> [num |-> 1, den |-> 2], thres |-> DefaultThres, verbose |-> FALSE]}

RECURSIVE ListCode(_, _)
\* a number naming the list deps[i..] of catalogue matrices
ListCode(deps, i) ==
    IF i > Len(deps) THEN 0
    ELSE (IF deps[i].kind = "LowerEdges" THEN 1 ELSE 0)
            + 2 * ListCode(deps, i + 1)

\* sample2deps is a dict: the order of its subsamples carries no meaning, and
\* lines 78, 82 and 85 treat them alike.  The model lists the subsamples in
\* one order only, by the code of their lists.
Canonical(s2d) ==
    \A s \in 1..(Len(s2d) - 1) : ListCode(s2d[s], 1) <= ListCode(s2d[s + 1], 1)

\* n subsamples, each with len matrices over p features
AlignedFamilies(p, n, len) ==
    {s2d \in [1..n -> [1..len -> DepCatalogue(p)]] : Canonical(s2d)}

\* n subsamples with lists of any lengths; every matrix is NoEdges(p)
RaggedFamilies(p, n) ==
    [1..n -> {[i \in 1..k |-> [kind |-> "NoEdges", p |-> p]] : k \in 0..MaxPath}]

Range(s) == {s[i] : i \in DOMAIN s}

\* var <= self.beta for floats: False when var is nan
LeqBeta(v, b) == ~v.nan /\ v.num * b.den <= b.num * v.den

\* np.min of a non-empty collection of floats: nan if any element is nan
NpMin(S) ==
    IF \E v \in S : v.nan THEN NaN
    ELSE CHOOSE v \in S : \A w \in S : v.num * w.den <= w.num * v.den

\* line 78 with np.any in place of np.all
LengthsMatch_any(r, s2d) == \E s \in DOMAIN s2d : Len(r) = Len(s2d[s])

\* line 78: np.all([len(rhos) == len(deps) for deps in sample2deps.values()])
LengthsMatch(r, s2d) == \A s \in DOMAIN s2d : Len(r) = Len(s2d[s])

RECURSIVE AddAll(_, _, _)
\* reduce(np.add, [vals[i] for vals in sample2adjs.values()]) over the first
\* k subsamples, k >= 1
AddAll(s2a, i, k) ==
    IF k = 1 THEN s2a[1][i]
    ELSE LET a == AddAll(s2a, i, k - 1)
             b == s2a[k][i]
         IN  [rows |-> a.rows, cols |-> a.cols,
              val |-> [ij \in DOMAIN a.val |-> a.val[ij] + b.val[ij]]]

RECURSIVE Rho2Adjs(_, _, _)
\* lines 83-85: the dict rho2adjs after the first i iterations; an
\* assignment to a key already present replaces its value
Rho2Adjs(r, s2a, i) ==
    IF i = 0 THEN <<>>
    ELSE (r[i] :> AddAll(s2a, i, Len(s2a))) @@ Rho2Adjs(r, s2a, i - 1)

\* lines 86-88: rho2mean_adj and rho2var
Rho2Var(r, s2a) ==
    LET rho2adjs == Rho2Adjs(r, s2a, Len(r))
        n_adj    == Len(s2a)
    IN  [rho \in DOMAIN rho2adjs |->
            adj_var([rows |-> rho2adjs[rho].rows, cols |-> rho2adjs[rho].cols,
                     val |-> rho2adjs[rho].val, den |-> n_adj])]

\* line 91 sorting in descending order
Sorted_descending(r) == SortSeq(r, LAMBDA a, b : a > b)

\* sorted(rhos), line 91
Sorted(r) == SortSeq(r, LAMBDA a, b : a < b)

\* line 94 with the filter lambd >= rho
MinVar_ge(r2v, rho) == NpMin({r2v[lambd] : lambd \in {l \in DOMAIN r2v : l >= rho}})

\* line 94: np.min([var for lambd, var in rho2var.iteritems() if lambd <= rho])
MinVar(r2v, rho) == NpMin({r2v[lambd] : lambd \in {l \in DOMAIN r2v : l <= rho}})

\* self._dep2adj(dep) of line 82, for every matrix of the catalogue and every
\* threshold of Objects
Dep2AdjTable ==
    [d \in UNION {DepCatalogue(p) : p \in 0..MaxFeat},
     t \in {o.thres : o \in Objects} |-> dep2adj(DepMatrix(d), t)]

\* lines 80-82: the local sample2adjs
Sample2Adjs(s2d, t) ==
    [s \in DOMAIN s2d |-> [i \in DOMAIN s2d[s] |-> Dep2AdjTable[s2d[s][i], t]]]

RECURSIVE FirstStable(_, _, _, _)
\* lines 93-97: the position in the sorted path at which the for loop breaks,
\* looking from position i on; 0 when the loop runs to its end
FirstStable(srt, r2v, b, i) ==
    IF i > Len(srt) THEN 0
    ELSE IF LeqBeta(MinVar(r2v, srt[i]), b) THEN i
    ELSE FirstStable(srt, r2v, b, i + 1)

Init ==
    /\ \E o \in Objects :
          beta = o.beta /\ thres = o.thres /\ verbose = o.verbose
    /\ pc = "idle"
    /\ dep_matrix = EmptyMatrix /\ adj = EmptyMatrix
    /\ mean_adj = EmptyMatrix /\ var = NaN
    /\ IdleLocals

\* a caller invokes optimal_reg(rhos, sample2deps)
Call ==
    /\ pc = "idle"
    /\ \E p \in 0..MaxFeat, n \in 0..MaxSamples, len \in 0..MaxPath :
          /\ rhos' \in [1..len -> 1..MaxRho]
          /\ sample2deps' \in AlignedFamilies(p, n, len) \cup RaggedFamilies(p, n)
    /\ pc' = "validate"
    /\ UNCHANGED <<objvars, depvars, varvars, rho2var, sorted_rhos, rho_opt,
                   warned, printed, err, result>>

\* lines 78-79
Validate ==
    /\ pc = "validate"
    /\ IF LengthsMatch(rhos, sample2deps)
       THEN pc' = "aggregate" /\ err' = err
       ELSE pc' = "raised" /\ err' = "AssertionError"
    /\ UNCHANGED <<objvars, depvars, varvars, rhos, sample2deps, rho2var,
                   sorted_rhos, rho_opt, warned, printed, result>>

\* lines 80-92.  With no subsample, reduce() of an empty list raises
\* TypeError in the first iteration of line 85; vals[i] raises IndexError
\* when a list of adjacency matrices is shorter than rhos.
Aggregate ==
    /\ pc = "aggregate"
    /\ LET sample2adjs == Sample2Adjs(sample2deps, thres)
       IN  IF Len(rhos) > 0 /\ Len(sample2adjs) = 0
           THEN /\ pc' = "raised" /\ err' = "TypeError"
                /\ UNCHANGED <<rho2var, sorted_rhos>>
           ELSE IF \E s \in DOMAIN sample2adjs : Len(sample2adjs[s]) < Len(rhos)
           THEN /\ pc' = "raised" /\ err' = "IndexError"
                /\ UNCHANGED <<rho2var, sorted_rhos>>
           ELSE /\ rho2var' = Rho2Var(rhos, sample2adjs)
                /\ sorted_rhos' = Sorted(rhos)
                /\ pc' = "scan" /\ err' = err
    /\ UNCHANGED <<objvars, depvars, varvars, rhos, sample2deps, rho_opt,
                   warned, printed, result>>

\* lines 93-97: the for loop, to its break or its end
Scan ==
    /\ pc = "scan"
    /\ LET i == FirstStable(sorted_rhos, rho2var, beta, 1)
       IN  IF i = 0
           THEN rho_opt' = rho_opt /\ pc' = "fallback"
           ELSE rho_opt' = sorted_rhos[i] /\ pc' = "report"
    /\ UNCHANGED <<objvars, depvars, varvars, rhos, sample2deps, rho2var,
                   sorted_rhos, warned, printed, err, result>>

\* lines 98-101: rho_opt is None; rhos[-2] raises IndexError on a list
\* shorter than 2
Fallback ==
    /\ pc = "fallback"
    /\ IF Len(sorted_rhos) < 2
       THEN /\ pc' = "raised" /\ err' = "IndexError"
            /\ UNCHANGED <<rho_opt, warned>>
       ELSE /\ rho_opt' = sorted_rhos[Len(sorted_rhos) - 1]
            /\ warned' = warned + 1
            /\ pc' = "report" /\ err' = err
    /\ UNCHANGED <<objvars, depvars, varvars, rhos, sample2deps, rho2var,
                   sorted_rhos, printed, result>>

\* lines 102-104
Report ==
    /\ pc = "report"
    /\ printed' = IF verbose THEN printed + 1 ELSE printed
    /\ result' = rho_opt
    /\ pc' = "done"
    /\ UNCHANGED <<objvars, depvars, varvars, rhos, sample2deps, rho2var,
                   sorted_rhos, rho_opt, warned, err>>

\* the call has returned or raised; its arguments and locals are dropped
Return ==
    /\ pc \in {"done", "raised"}
    /\ pc' = "idle"
    /\ rhos' = <<>> /\ sample2deps' = <<>>
    /\ rho2var' = <<>> /\ sorted_rhos' = <<>> /\ rho_opt' = None
    /\ warned' = 0 /\ printed' = 0 /\ err' = "" /\ result' = None
    /\ UNCHANGED <<objvars, depvars, varvars>>

Next ==
    \/ Call \/ Validate \/ Aggregate \/ Scan \/ Fallback \/ Report \/ Return

Spec == Init /\ [][Next]_vars

\* ------------------------------------------------------------ properties
Minimum(S) == CHOOSE x \in S : \A y \in S : x <= y
Maximum(S) == CHOOSE x \in S : \A y \in S : x >= y
SecondLargest(S) == Maximum(S \ {Maximum(S)})

Terminated == pc \in {"done", "raised"}

\* the call was handed at least one subsample and every list has len(rhos)
WellShaped ==
    /\ Len(sample2deps) >= 1
    /\ \A s \in DOMAIN sample2deps : Len(sample2deps[s]) = Len(rhos)

\* the call was well shaped and its matrices have at least two features
HasPairs == WellShaped /\ Len(rhos) >= 1 /\ sample2deps[1][1].p >= 2

\* the score the scan uses for the path value r satisfies the bound
StableValue(r) == r \in DOMAIN rho2var /\ LeqBeta(rho2var[r], beta)

\* path values whose running minimum (over the values <= rho) is <= beta
StableSet ==
    {rho \in Range(rhos) : \E r \in Range(rhos) : r <= rho /\ StableValue(r)}

\* the adjacency matrices held at position i, one for each subsample
AdjsAt(i) ==
    [s \in DOMAIN sample2deps |-> Sample2Adjs(sample2deps, thres)[s][i]]

\* number of the matrices adjs that have the edge ij
EdgeCount(adjs, ij) == Cardinality({s \in DOMAIN adjs : adjs[s].val[ij] = 1})

\* instability of the mean of the adjacency matrices held at position i
PositionScore(i) ==
    LET adjs == AdjsAt(i)
        a    == adjs[1]
    IN  adj_var([rows |-> a.rows, cols |-> a.cols, den |-> Len(adjs),
                 val |-> [ij \in DOMAIN a.val |-> EdgeCount(adjs, ij)]])

ScoreEq(a, b) == a.nan = b.nan /\ a.num * b.den = b.num * a.den

C2_FallbackSecondLargestDistinct ==
    (Terminated /\ HasPairs /\ Cardinality(Range(rhos)) >= 2 /\ StableSet = {}) =>
        /\ pc = "done"
        /\ result = SecondLargest(Range(rhos))
        /\ warned = 1

\* C7: when no path value is stable and the path has fewer than two distinct
\* values, the call fails with an index error and returns nothing.
C7_FewDistinctValuesFail ==
    (Terminated /\ HasPairs /\ Cardinality(Range(rhos)) < 2 /\ StableSet = {}) =>
        /\ pc = "raised"
        /\ err = "IndexError"
        /\ result = None

\* C6: with fewer than two features the instability computation of line 88
\* fails, so the call never reaches the scan and returns no value.
C6_FewFeaturesFail ==
    (WellShaped /\ Len(rhos) >= 1 /\ sample2deps[1][1].p < 2) =>
        /\ pc \in {"validate", "aggregate", "raised"}
        /\ rho2var = <<>>
        /\ result = None

\* C9: the score the scan uses for rhos[i] is the instability of the mean of
\* the adjacency matrices at position i, for every position i, also when the
\* path holds the same value at two positions.
C9_ScoreByPosition ==
    (WellShaped /\ pc \in {"scan", "fallback", "report", "done"}) =>
        \A i \in DOMAIN rhos : ScoreEq(rho2var[rhos[i]], PositionScore(i))

\* positions of a path whose own score is <= beta
OwnStable == {rhos[i] : i \in {j \in DOMAIN rhos : LeqBeta(PositionScore(j), beta)}}

\* C10: on a path of distinct values the call returns the smallest value
\* whose own score is <= beta, and it takes the fallback (warning or index
\* error) exactly when no value has its own score <= beta.
C10_RunningMinIsOwnScoreScan ==
    (Terminated /\ WellShaped /\ Cardinality(Range(rhos)) = Len(rhos)) =>
        /\ OwnStable # {} =>
              pc = "done" /\ warned = 0 /\ result = Minimum(OwnStable)
        /\ OwnStable = {} <=>
              (warned = 1 \/ (pc = "raised" /\ err = "IndexError"))

\* C10 happens: distinct unsorted values, a value returned by the scan, and a
\* larger value whose own score exceeds beta while its running minimum does not
C10_Witness ==
    /\ pc = "done" /\ warned = 0 /\ Len(rhos) >= 2 /\ rhos # sorted_rhos
    /\ Cardinality(Range(rhos)) = Len(rhos)
    /\ \E j \in DOMAIN rhos :
          rhos[j] > result /\ ~LeqBeta(PositionScore(j), beta)

\* C5: a call whose lists do not all have len(rhos) raises the assertion of
\* line 78 as its next step: nothing was converted or scanned, nothing is
\* returned, warned or printed, and the arguments and the object are unchanged.
C5_ShapeMismatchFailsFast ==
    [][(pc = "validate" /\ \E s \in DOMAIN sample2deps :
                               Len(sample2deps[s]) # Len(rhos)) =>
          /\ pc' = "raised" /\ err' = "AssertionError"
          /\ rho2var' = <<>> /\ sorted_rhos' = <<>> /\ rho_opt' = None
          /\ result' = None /\ warned' = 0 /\ printed' = 0
          /\ UNCHANGED <<rhos, sample2deps, beta, thres, verbose>>]_vars

\* C5 happens: two subsamples, one with a list of the right length and one
\* without, and a verbose object
C5_Witness ==
    /\ pc = "raised" /\ err = "AssertionError" /\ verbose
    /\ Len(sample2deps) = 2 /\ Len(rhos) = 2
    /\ Len(sample2deps[1]) = 2 /\ Len(sample2deps[2]) = 3

\* C3: _dep2adj returns a symmetric matrix of zeros and ones for every
\* square dependency matrix.
C3_AdjacencySymmetricBinary ==
    pc = "converted" =>
        /\ \A ij \in DOMAIN adj.val : adj.val[ij] \in {0, 1}
        /\ \A ij \in DOMAIN adj.val : adj.val[ij] = adj.val[<<ij[2], ij[1]>>]

Edges(a) == {ij \in DOMAIN a.val : a.val[ij] = 1}

\* C8: the edges _dep2adj draws with a larger threshold are among those it
\* draws with a smaller one.
C8_ThresholdMonotone ==
    pc = "converted" =>
        \A t \in ThresVals :
            /\ t > thres => Edges(dep2adj(dep_matrix, t)) \subseteq Edges(adj)
            /\ t < thres => Edges(adj) \subseteq Edges(dep2adj(dep_matrix, t))

\* C8 happens: a matrix that is not symmetric, converted with the default
\* threshold, loses an edge with a larger threshold and gains one with a
\* smaller threshold
C8_Witness ==
    /\ pc = "converted" /\ thres = DefaultThres /\ dep_matrix.rows = 2
    /\ ~AllClose(dep_matrix, Transpose(dep_matrix))
    /\ \E t \in ThresVals : t > thres /\ Edges(dep2adj(dep_matrix, t)) # Edges(adj)
    /\ \E t \in ThresVals : t < thres /\ Edges(dep2adj(dep_matrix, t)) # Edges(adj)

RECURSIVE RowTerms(_, _, _)
\* sum over j' in j..p of 2 * k * (den - k), k the numerator at (i, j')
RowTerms(m, i, j) ==
    IF j > m.cols THEN 0
    ELSE 2 * m.val[<<i, j>>] * (m.den - m.val[<<i, j>>]) + RowTerms(m, i, j + 1)

RECURSIVE UpperTerms(_, _)
\* sum of the terms of the rows i..p, each over the columns right of the diagonal
UpperTerms(m, i) ==
    IF i > m.rows THEN 0 ELSE RowTerms(m, i, i + 1) + UpperTerms(m, i + 1)

UnorderedPairs(p) == {S \in SUBSET (1..p) : Cardinality(S) = 2}

\* C4: for p >= 2 features and frequencies in [0,1], _adj_var returns the
\* mean of 2f(1-f) over the pairs i < j; the result lies in [0,1], is 0 when
\* every frequency is 0 or 1, and is 1 only when every frequency is 1/2.
C4_InstabilityMeanAndRange ==
    (pc = "scored" /\ mean_adj.rows >= 2) =>
        LET m == mean_adj
            pairs == UnorderedPairs(m.rows)
            freq(S) == m.val[<<Minimum(S), Maximum(S)>>]
        IN  /\ ~var.nan
            /\ var.num * (m.den * m.den * Cardinality(pairs))
                  = UpperTerms(m, 1) * var.den
            /\ 0 <= var.num /\ var.num <= var.den
            /\ (\A S \in pairs : freq(S) \in {0, m.den}) => var.num = 0
            /\ var.num = var.den => \A S \in pairs : 2 * freq(S) = m.den

\* C4 happens: three features with the three frequencies 0, 1/2 and 1 above
\* the diagonal and 1/2 on it
C4_Witness ==
    /\ pc = "scored" /\ mean_adj.rows = 3 /\ mean_adj.den = 2
    /\ {mean_adj.val[ij] : ij \in {<<1, 2>>, <<1, 3>>, <<2, 3>>}} = {0, 1, 2}
    /\ mean_adj.val[<<1, 1>>] = 1
    /\ var.num * 6 = var.den

====
